---- MODULE Spec2Model ----
(***************************************************************************)
(* OnboardLite: the Apple Wallet pass builder (app/routes/wallet.py) and   *)
(* the configuration loader (app/util/settings.py).                        *)
(*                                                                         *)
(* Spec          a /wallet/apple request: aapl_gen calls apple_wallet,     *)
(*               which fills a PKPass step by step, fetches the avatar     *)
(*               through get_img and signs; then a second request for a    *)
(*               profile that differs from the first in id alone.          *)
(* SpecSettings  a sequence of Settings(...) constructor calls through     *)
(*               SingletonBaseSettingsMeta.__call__.                       *)
(* SpecBitwarden the module-level load of settings.py: the yaml dict, then *)
(*               BitwardenConfig(settings) when bws.enable is set.         *)
(***************************************************************************)
EXTENDS Integers, Sequences, FiniteSets, TLC

VARIABLES
    user_data,      \* wallet.py:240   the profile dict handed to apple_wallet
    pc,             \* position of the request inside aapl_gen / apple_wallet
    p,              \* wallet.py:39    the PKPass being filled
    pass_json,      \* wallet.py:62    the manifest dict
    img_data,       \* wallet.py:128   bytes returned by the last get_img call
    img_stack,      \* wallet.py:22    urls of the nested get_img frames
    gets,           \* GET requests issued by the running / last get_img call
    fetch_log,      \* every GET of this request: <<url, status>>
    sign_called,    \* p.sign() has been entered in this request
    response,       \* wallet.py:244   what aapl_gen returned
    prev,           \* the previous request (profile, manifest, entries, fetches)
    _instances,     \* settings.py:250 SingletonBaseSettingsMeta._instances[Settings]
    calls,          \* log of Settings(...) calls: the argument and the object returned
    next_obj,       \* identity of the next object super().__call__ allocates
    settings,       \* settings.py:68  the module-level settings dict
    file_settings,  \* settings.py:73  the dict as yaml.load produced it
    bitwarden_settings, \* settings.py:34 the parsed secret list
    bw_pc           \* position of the module-level code of settings.py

walletVars == <<user_data, pc, p, pass_json, img_data, img_stack, gets,
                fetch_log, sign_called, response, prev>>
singletonVars == <<_instances, calls, next_obj>>
bitwardenVars == <<settings, file_settings, bitwarden_settings, bw_pc>>
vars == <<walletVars, singletonVars, bitwardenVars>>

---------------------------------------------------------------------------
(* Python values.  A dict is a record whose absent keys hold Absent.      *)

Absent  == "<absent>"
PyNone  == "<None>"
PyFalse == "<False>"

\* dict.get(key, default) on a field that may be absent
Get(value, default) == IF value = Absent THEN default ELSE value

\* bool(v) for the str / None / False values the profile holds
Truthy(v) == v \notin {PyNone, PyFalse, ""}

---------------------------------------------------------------------------
(* Bounds and input sets.                                                  *)

\* deepest nesting of get_img frames explored; the interpreter's recursion
\* limit plays this role in the program
MaxDepth == 3

AvatarUrl   == "https://cdn.discordapp.com/avatars/ada.png"
FallbackUrl == "https://cdn.hackucf.org/PFP.png"

Statuses == {200, 404}

\* values uuid.uuid4() may draw
Serials == {"uuid-a", "uuid-b"}

Ids        == {Absent, "Unknown_ID", "u-1"}
EmailsOf(addr) == {Absent, PyNone, "", addr}

\* Settings(...) calls explored
MaxCalls == 4

\* items in the secret list bws prints
MaxSecrets == 2

EmptyDict == [username |-> Absent, avatar |-> Absent]

DiscordDicts == [username : {Absent, "ada#0001"}, avatar : {Absent, AvatarUrl}]

Profiles ==
    { [id |-> i, first_name |-> "Ada", surname |-> "Lovelace",
       infra_email |-> ie, ops_email |-> oe,
       has_discord |-> TRUE, discord |-> d] :
         i \in Ids, ie \in EmailsOf("ada@infra.hackucf.org"),
         oe \in EmailsOf("ada@ops.hackucf.org"), d \in DiscordDicts }
    \cup
    { [id |-> i, first_name |-> "Ada", surname |-> "Lovelace",
       infra_email |-> ie, ops_email |-> oe,
       has_discord |-> FALSE, discord |-> EmptyDict] :
         i \in Ids, ie \in EmailsOf("ada@infra.hackucf.org"),
         oe \in EmailsOf("ada@ops.hackucf.org") }

---------------------------------------------------------------------------
(* apple_wallet: pure parts.                                               *)

\* user_data.get("discord", {})
Discord(ud) == IF ud.has_discord THEN ud.discord ELSE EmptyDict

\* a slip that tests the key's presence instead of its value
is_ops_KeyPresent(ud) == ud.ops_email # Absent

\* line 41
is_ops(ud) == Truthy(Get(ud.ops_email, PyFalse))

discord_img(ud) == Get(Discord(ud).avatar, PyFalse)

\* file.read() of a static asset: the bytes of that file
FileBytes(file) == "bytes(" \o file \o ")"

\* the body the host serves for a url
Body(url) == "image(" \o url \o ")"

\* a variant that substitutes a placeholder string for a missing username
AltText_Placeholder(ud) == Get(Discord(ud).username, "Unknown")

\* line 85
AltText(ud) == Get(Discord(ud).username, PyNone)

\* line 83
Message(ud) == Get(ud.id, "Unknown_ID")

\* a variant that shows the member id next to the name
PrimaryValue_WithId(ud) ==
    Get(ud.first_name, "") \o " " \o Get(ud.surname, "") \o " " \o Get(ud.id, "")

\* lines 93-95
PrimaryValue(ud) == Get(ud.first_name, "") \o " " \o Get(ud.surname, "")

\* line 102
SecondaryValue(ud) == Get(ud.infra_email, "Not Provisioned")

PassJson(ud, serial) ==
    [ passTypeIdentifier |-> "pass.org.hackucf.join",
      formatVersion      |-> 1,
      teamIdentifier     |-> "VWTW9R97Q4",
      organizationName   |-> "Hack@UCF",
      serialNumber       |-> serial,
      description        |-> "Hack@UCF Membership ID",
      locations          |-> << [ latitude     |-> "28.601366109876327",
                                  longitude    |-> "-81.19867691612126",
                                  relevantText |-> "You're near the CyberLab!" ] >>,
      foregroundColor    |-> "#D2990B",
      backgroundColor    |-> "#1C1C1C",
      labelColor         |-> "#ffffff",
      logoText           |-> "",
      barcodes           |-> << [ format          |-> "PKBarcodeFormatQR",
                                  message         |-> Message(ud),
                                  messageEncoding |-> "iso-8859-1",
                                  altText         |-> AltText(ud) ] >>,
      generic            |->
        [ primaryFields   |-> << [ label |-> "Name", key |-> "name",
                                   value |-> PrimaryValue(ud) ] >>,
          secondaryFields |-> << [ label |-> "Infra Email", key |-> "infra",
                                   value |-> SecondaryValue(ud) ] >>,
          backFields      |-> << [ label |-> "View Profile", key |-> "view-profile",
                                   value |-> "You can view and edit your profile at https://join.hackucf.org/profile." ],
                                 [ label |-> "Check In", key |-> "check-in",
                                   value |-> "At a meeting? Visit https://hackucf.org/signin to sign in" ] >> ] ]

\* json.dumps of one str-or-None value
JsonStr(v) == IF v = PyNone THEN "null" ELSE "\"" \o v \o "\""

JsonField(f) ==
    "{\"label\": " \o JsonStr(f.label) \o ", \"key\": " \o JsonStr(f.key)
    \o ", \"value\": " \o JsonStr(f.value) \o "}"

\* json.dumps(pass_json).encode("utf8")
Dumps(m) ==
    "{\"passTypeIdentifier\": " \o JsonStr(m.passTypeIdentifier)
    \o ", \"formatVersion\": 1"
    \o ", \"teamIdentifier\": " \o JsonStr(m.teamIdentifier)
    \o ", \"organizationName\": " \o JsonStr(m.organizationName)
    \o ", \"serialNumber\": " \o JsonStr(m.serialNumber)
    \o ", \"description\": " \o JsonStr(m.description)
    \o ", \"locations\": [{\"latitude\": " \o m.locations[1].latitude
    \o ", \"longitude\": " \o m.locations[1].longitude
    \o ", \"relevantText\": " \o JsonStr(m.locations[1].relevantText) \o "}]"
    \o ", \"foregroundColor\": " \o JsonStr(m.foregroundColor)
    \o ", \"backgroundColor\": " \o JsonStr(m.backgroundColor)
    \o ", \"labelColor\": " \o JsonStr(m.labelColor)
    \o ", \"logoText\": " \o JsonStr(m.logoText)
    \o ", \"barcodes\": [{\"format\": " \o JsonStr(m.barcodes[1].format)
    \o ", \"message\": " \o JsonStr(m.barcodes[1].message)
    \o ", \"messageEncoding\": " \o JsonStr(m.barcodes[1].messageEncoding)
    \o ", \"altText\": " \o JsonStr(m.barcodes[1].altText) \o "}]"
    \o ", \"generic\": {\"primaryFields\": [" \o JsonField(m.generic.primaryFields[1])
    \o "], \"secondaryFields\": [" \o JsonField(m.generic.secondaryFields[1])
    \o "], \"backFields\": [" \o JsonField(m.generic.backFields[1])
    \o ", " \o JsonField(m.generic.backFields[2]) \o "]}}"

\* the static file a logo slot is read from
LogoAsset(ops, scale) ==
    IF ops THEN "logo_ops" \o scale \o ".png" ELSE "logo_reg" \o scale \o ".png"

\* p.add_to_pass_package((name, data))
add_to_pass_package(pass, name, data) ==
    [pass EXCEPT !.entries = Append(@, <<name, data>>)]

EmptyPass == [entries |-> <<>>, key |-> PyNone, cert |-> PyNone, signed |-> FALSE]

NoPassJson == [unset |-> TRUE]
NoResponse == [unset |-> TRUE]
NoPrev     == [unset |-> TRUE]

---------------------------------------------------------------------------
(* One request: aapl_gen -> apple_wallet -> get_img.  Nothing of a request *)
(* survives it (p, pass_json and the get_img frames are locals), so every  *)
(* request starts in a state Init describes.                               *)

FreshRequest(ud) ==
    /\ user_data' = ud
    /\ pc' = "icon"
    /\ p' = EmptyPass
    /\ pass_json' = NoPassJson
    /\ img_data' = PyNone
    /\ img_stack' = <<>>
    /\ gets' = 0
    /\ fetch_log' = <<>>
    /\ sign_called' = FALSE
    /\ response' = NoResponse

WalletInit ==
    /\ user_data \in Profiles
    /\ pc = "icon"
    /\ p = EmptyPass
    /\ pass_json = NoPassJson
    /\ img_data = PyNone
    /\ img_stack = <<>>
    /\ gets = 0
    /\ fetch_log = <<>>
    /\ sign_called = FALSE
    /\ response = NoResponse
    /\ prev = NoPrev

ReadIcon ==
    /\ pc = "icon"
    /\ p' = add_to_pass_package(p, "icon.png", FileBytes("icon.png"))
    /\ pc' = "icon2x"
    /\ UNCHANGED <<user_data, pass_json, img_data, img_stack, gets, fetch_log,
                   sign_called, response, prev>>

ReadIcon2x ==
    /\ pc = "icon2x"
    /\ p' = add_to_pass_package(p, "icon@2x.png", FileBytes("icon@2x.png"))
    /\ pc' = "pass_json"
    /\ UNCHANGED <<user_data, pass_json, img_data, img_stack, gets, fetch_log,
                   sign_called, response, prev>>

\* lines 62-128: the manifest, then either the first get_img call or the logos
BuildPassJson ==
    /\ pc = "pass_json"
    /\ \E serial \in Serials : pass_json' = PassJson(user_data, serial)
    /\ IF Truthy(discord_img(user_data))
         THEN /\ pc' = "get_img_1"
              /\ img_stack' = <<discord_img(user_data)>>
              /\ gets' = 0
         ELSE /\ pc' = "logo2x"
              /\ UNCHANGED <<img_stack, gets>>
    /\ UNCHANGED <<user_data, p, img_data, fetch_log, sign_called, response, prev>>

InGetImg == pc \in {"get_img_1", "get_img_2"}

CurrentUrl == img_stack[Len(img_stack)]

\* lines 26-29: the GET answers below 400, every frame returns the body
GetImgReturn ==
    /\ InGetImg
    /\ \E status \in Statuses :
         /\ status < 400
         /\ fetch_log' = Append(fetch_log, <<CurrentUrl, status>>)
    /\ gets' = gets + 1
    /\ img_data' = Body(CurrentUrl)
    /\ img_stack' = <<>>
    /\ pc' = IF pc = "get_img_1" THEN "thumbnail" ELSE "thumbnail2x"
    /\ UNCHANGED <<user_data, p, pass_json, sign_called, response, prev>>

\* lines 26-31: the GET answers 400 or above, get_img calls itself on the fallback
GetImgFallback ==
    /\ InGetImg
    /\ Len(img_stack) < MaxDepth
    /\ \E status \in Statuses :
         /\ ~(status < 400)
         /\ fetch_log' = Append(fetch_log, <<CurrentUrl, status>>)
    /\ gets' = gets + 1
    /\ img_stack' = Append(img_stack, FallbackUrl)
    /\ UNCHANGED <<user_data, pc, p, pass_json, img_data, sign_called, response, prev>>

\* line 31 at the deepest frame: the recursive call raises RecursionError
GetImgRecursionError ==
    /\ InGetImg
    /\ Len(img_stack) = MaxDepth
    /\ \E status \in Statuses :
         /\ ~(status < 400)
         /\ fetch_log' = Append(fetch_log, <<CurrentUrl, status>>)
    /\ gets' = gets + 1
    /\ img_stack' = <<>>
    /\ pc' = "failed"
    /\ UNCHANGED <<user_data, p, pass_json, img_data, sign_called, response, prev>>

\* line 26: requests.get raises (connection refused, DNS, ...)
GetImgRaises ==
    /\ InGetImg
    /\ fetch_log' = Append(fetch_log, <<CurrentUrl, 0>>)
    /\ gets' = gets + 1
    /\ img_stack' = <<>>
    /\ pc' = "failed"
    /\ UNCHANGED <<user_data, p, pass_json, img_data, sign_called, response, prev>>

\* lines 129-131: first thumbnail added, second get_img call entered
AddThumbnail ==
    /\ pc = "thumbnail"
    /\ p' = add_to_pass_package(p, "thumbnail.png", img_data)
    /\ img_stack' = <<discord_img(user_data)>>
    /\ gets' = 0
    /\ pc' = "get_img_2"
    /\ UNCHANGED <<user_data, pass_json, img_data, fetch_log, sign_called, response, prev>>

\* a copy-paste slip: the second thumbnail reuses the first one's name
AddThumbnail2x_SameName ==
    /\ pc = "thumbnail2x"
    /\ p' = add_to_pass_package(p, "thumbnail.png", img_data)
    /\ pc' = "logo2x"
    /\ UNCHANGED <<user_data, pass_json, img_data, img_stack, gets, fetch_log,
                   sign_called, response, prev>>

\* line 132
AddThumbnail2x ==
    /\ pc = "thumbnail2x"
    /\ p' = add_to_pass_package(p, "thumbnail@2x.png", img_data)
    /\ pc' = "logo2x"
    /\ UNCHANGED <<user_data, pass_json, img_data, img_stack, gets, fetch_log,
                   sign_called, response, prev>>

\* lines 135-147 / 161-173
ReadLogo2x ==
    /\ pc = "logo2x"
    /\ p' = add_to_pass_package(p, "logo@2x.png",
                                FileBytes(LogoAsset(is_ops(user_data), "@2x")))
    /\ pc' = "logo"
    /\ UNCHANGED <<user_data, pass_json, img_data, img_stack, gets, fetch_log,
                   sign_called, response, prev>>

\* lines 149-160 / 175-186
ReadLogo ==
    /\ pc = "logo"
    /\ p' = add_to_pass_package(p, "logo.png",
                                FileBytes(LogoAsset(is_ops(user_data), "")))
    /\ pc' = "dumps"
    /\ UNCHANGED <<user_data, pass_json, img_data, img_stack, gets, fetch_log,
                   sign_called, response, prev>>

\* lines 188-190
AddPassJson ==
    /\ pc = "dumps"
    /\ p' = add_to_pass_package(p, "pass.json", Dumps(pass_json))
    /\ pc' = "credentials"
    /\ UNCHANGED <<user_data, pass_json, img_data, img_stack, gets, fetch_log,
                   sign_called, response, prev>>

\* lines 193-200
ReadCredentials ==
    /\ pc = "credentials"
    /\ p' = [p EXCEPT !.key = FileBytes("hackucf.key"),
                      !.cert = FileBytes("hackucf.pem")]
    /\ pc' = "sign"
    /\ UNCHANGED <<user_data, pass_json, img_data, img_stack, gets, fetch_log,
                   sign_called, response, prev>>

\* a reordering slip: p.sign() is reached before pass.json and the
\* credentials are attached
Sign_BeforePassJson ==
    /\ pc = "dumps"
    /\ sign_called' = TRUE
    /\ p' = [p EXCEPT !.signed = TRUE]
    /\ pc' = "returned"
    /\ UNCHANGED <<user_data, pass_json, img_data, img_stack, gets, fetch_log,
                   response, prev>>

\* lines 204-206: p.sign() succeeds and apple_wallet returns p
Sign ==
    /\ pc = "sign"
    /\ sign_called' = TRUE
    /\ p' = [p EXCEPT !.signed = TRUE]
    /\ pc' = "returned"
    /\ UNCHANGED <<user_data, pass_json, img_data, img_stack, gets, fetch_log,
                   response, prev>>

\* line 204: p.sign() raises
SignRaises ==
    /\ pc = "sign"
    /\ sign_called' = TRUE
    /\ pc' = "failed"
    /\ UNCHANGED <<user_data, p, pass_json, img_data, img_stack, gets, fetch_log,
                   response, prev>>

\* an open() of a static asset raises: nothing is added, the exception leaves
\* apple_wallet and aapl_gen
AssetReadRaises ==
    /\ pc \in {"icon", "icon2x", "logo2x", "logo"}
    /\ pc' = "failed"
    /\ UNCHANGED <<user_data, p, pass_json, img_data, img_stack, gets, fetch_log,
                   sign_called, response, prev>>

\* lines 193-197: hackucf.key or hackucf.pem cannot be opened
CredentialReadRaises ==
    /\ pc = "credentials"
    /\ pc' = "failed"
    /\ UNCHANGED <<user_data, p, pass_json, img_data, img_stack, gets, fetch_log,
                   sign_called, response, prev>>

\* bytes(p): the archive of the entries with the signature block
Bytes(pass) == [entries |-> pass.entries, signed |-> pass.signed]

\* lines 244-248
Respond ==
    /\ pc = "returned"
    /\ response' = [content    |-> Bytes(p),
                    media_type |-> "application/vnd.apple.pkpass",
                    filename   |-> "hackucf.pkpass"]
    /\ pc' = "responded"
    /\ UNCHANGED <<user_data, p, pass_json, img_data, img_stack, gets, fetch_log,
                   sign_called, prev>>

\* a different id for the twin profile; over all first profiles every
\* unordered pair of distinct ids is met
OtherId(i) ==
    CASE i = Absent       -> "Unknown_ID"
      [] i = "Unknown_ID" -> "u-1"
      [] OTHER            -> Absent

\* the next GET /wallet/apple comes from a member whose profile differs from
\* the one just served in id alone; the pass just served is remembered
TwinRequest ==
    /\ pc = "responded"
    /\ prev = NoPrev
    /\ FreshRequest([user_data EXCEPT !.id = OtherId(@)])
    /\ prev' = [user_data |-> user_data, pass_json |-> pass_json,
                entries |-> p.entries, fetch_log |-> fetch_log]


---------------------------------------------------------------------------
(* settings.py: SingletonBaseSettingsMeta.__call__ on Settings.            *)

NoInstance == [unset |-> TRUE]
\* what a call that raises ValidationError leaves in the log
Raised == [raised |-> TRUE]

\* the http.domain keyword of a Settings(...) call: left out, a str, or a
\* value HttpConfig.domain: str rejects
DomainArgs == {Absent, "join.hackucf.org", "localhost", PyNone}

\* line 246: the module-level default of Settings.http
DefaultDomain == "config.yml domain"

\* pydantic's validation of the call's arguments, as far as HttpConfig goes
Validates(domain) == domain # PyNone

\* super().__call__(*args, **kwargs): a new Settings object
Construct(oid, domain) == [oid |-> oid, http_domain |-> Get(domain, DefaultDomain)]

\* a metaclass that forgets the membership test and constructs every time
SettingsCall_AlwaysConstruct ==
    /\ Len(calls) < MaxCalls
    /\ \E domain \in DomainArgs :
         IF Validates(domain)
           THEN /\ _instances' = Construct(next_obj, domain)
                /\ next_obj' = next_obj + 1
                /\ calls' = Append(calls, [domain |-> domain,
                                        result |-> Construct(next_obj, domain)])
           ELSE /\ calls' = Append(calls, [domain |-> domain, result |-> Raised])
                /\ UNCHANGED <<_instances, next_obj>>

\* lines 252-255: one Settings(...) call
SettingsCall ==
    /\ Len(calls) < MaxCalls
    /\ \E domain \in DomainArgs :
         IF _instances = NoInstance
           THEN IF Validates(domain)
                  THEN /\ _instances' = Construct(next_obj, domain)
                       /\ next_obj' = next_obj + 1
                       /\ calls' = Append(calls, [domain |-> domain,
                                        result |-> Construct(next_obj, domain)])
                  ELSE /\ calls' = Append(calls, [domain |-> domain, result |-> Raised])
                       /\ UNCHANGED <<_instances, next_obj>>
           ELSE /\ calls' = Append(calls, [domain |-> domain, result |-> _instances])
                /\ UNCHANGED <<_instances, next_obj>>

---------------------------------------------------------------------------
(* settings.py: the module-level load and BitwardenConfig.                 *)

\* lines 36-51
bitwarden_mapping ==
    [ discord_bot_token |-> <<"discord", "bot_token">>,
      discord_client_id |-> <<"discord", "client_id">>,
      discord_secret |-> <<"discord", "secret">>,
      stripe_api_key |-> <<"stripe", "api_key">>,
      stripe_webhook_secret |-> <<"stripe", "webhook_secret">>,
      stripe_price_id |-> <<"stripe", "price_id">>,
      email_password |-> <<"email", "password">>,
      jwt_secret |-> <<"jwt", "secret">>,
      infra_wifi |-> <<"infra", "wifi">>,
      infra_application_credential_id |-> <<"infra", "application_credential_id">>,
      infra_configuration_credential_secret |-> <<"infra", "application_credential_secret">> ]

\* the characters "[^a-z0-9-]" does not match
ProjectIdChars ==
    {"a","b","c","d","e","f","g","h","i","j","k","l","m","n","o","p","q","r",
     "s","t","u","v","w","x","y","z","0","1","2","3","4","5","6","7","8","9","-"}

\* line 24: bool(re.search("[^a-z0-9-]", project_id)), project_id a sequence
\* of characters
InvalidProjectId(project_id) ==
    \E i \in 1..Len(project_id) : project_id[i] \notin ProjectIdChars

\* lines 76-78: {item["key"]: item["value"] for item in data}; a key listed
\* twice keeps its last value
parse_json_to_dict(data) ==
    [ k \in { data[i].key : i \in 1..Len(data) } |->
        LET last == CHOOSE i \in 1..Len(data) :
                      /\ data[i].key = k
                      /\ \A j \in 1..Len(data) : data[j].key = k => j <= i
        IN  data[last].value ]

\* lines 53-59: the fetched secrets regrouped by section
BitwardenMapped(bw) ==
    LET present == DOMAIN bitwarden_mapping \cap DOMAIN bw
        tops == { bitwarden_mapping[k][1] : k \in present }
    IN  [ top \in tops |->
            LET keys == { k \in present : bitwarden_mapping[k][1] = top }
            IN  [ nested \in { bitwarden_mapping[k][2] : k \in keys } |->
                    bw[CHOOSE k \in keys : bitwarden_mapping[k][2] = nested] ] ]

\* dict item assignment of every item of nested_dict
Assign(section, nested_dict) ==
    [ f \in DOMAIN section \cup DOMAIN nested_dict |->
        IF f \in DOMAIN nested_dict THEN nested_dict[f] ELSE section[f] ]

\* an overlay that forgets the membership test and creates missing sections
Overlay_CreatesSections(conf, mapped) ==
    [ top \in DOMAIN conf \cup DOMAIN mapped |->
        IF top \in DOMAIN mapped
          THEN IF top \in DOMAIN conf THEN Assign(conf[top], mapped[top])
                                      ELSE mapped[top]
          ELSE conf[top] ]

\* lines 61-64
Overlay(conf, mapped) ==
    [ top \in DOMAIN conf |->
        IF top \in DOMAIN mapped THEN Assign(conf[top], mapped[top])
                                 ELSE conf[top] ]

ProjectIds == { <<"p", "r", "-", "1">>, <<"P", "1">>, <<"p", "/", ".", ".">> }

OptionalSections == {"discord", "stripe", "infra"}

\* what config.yml holds for a section
FileSection(name, project_id, enable) ==
    CASE name = "bws"     -> [project_id |-> project_id, enable |-> enable]
      [] name = "discord" -> [bot_token |-> "yml-bot-token", guild_id |-> "yml-guild"]
      [] name = "stripe"  -> [api_key |-> "yml-api-key", url_success |-> "yml-url"]
      [] name = "infra"   -> [horizon |-> "yml-horizon"]

YamlSettings ==
    { [ name \in {"bws"} \cup opt |-> FileSection(name, pid, en) ] :
        opt \in SUBSET OptionalSections, pid \in ProjectIds, en \in BOOLEAN }

SecretItems ==
    [ key : {"discord_bot_token", "stripe_api_key", "infra_wifi", "jwt_secret",
             "not_mapped"},
      value : {"bws-1", "bws-2"} ]

\* stdout of `bws secret list`: a JSON list of items
SecretLists == UNION { [1..n -> SecretItems] : n \in 0..MaxSecrets }

BitwardenInit ==
    /\ file_settings \in YamlSettings
    /\ settings = file_settings
    /\ bitwarden_settings = <<>>
    /\ bw_pc = "loaded"

\* lines 82-83 with lines 22-65: bws.enable is set, the secrets are listed,
\* parsed and laid over the settings
BitwardenConfig ==
    /\ bw_pc = "loaded"
    /\ settings["bws"].enable
    /\ ~InvalidProjectId(settings["bws"].project_id)
    /\ \E data \in SecretLists :
         /\ bitwarden_settings' = parse_json_to_dict(data)
         /\ settings' = Overlay(settings, BitwardenMapped(parse_json_to_dict(data)))
    /\ bw_pc' = "merged"
    /\ UNCHANGED file_settings

\* lines 24-25, 31-33: the project id is rejected; line 77: stdout of bws is
\* not JSON.  The exception leaves the module.
BitwardenConfigRaises ==
    /\ bw_pc = "loaded"
    /\ settings["bws"].enable
    /\ bw_pc' = "raised"
    /\ UNCHANGED <<settings, file_settings, bitwarden_settings>>

\* line 82: bws.enable is not set
BitwardenDisabled ==
    /\ bw_pc = "loaded"
    /\ ~settings["bws"].enable
    /\ bw_pc' = "skipped"
    /\ UNCHANGED <<settings, file_settings, bitwarden_settings>>

WalletIdle ==
    /\ user_data = [unset |-> TRUE]
    /\ pc = "idle"
    /\ p = EmptyPass
    /\ pass_json = NoPassJson
    /\ img_data = PyNone
    /\ img_stack = <<>>
    /\ gets = 0
    /\ fetch_log = <<>>
    /\ sign_called = FALSE
    /\ response = NoResponse
    /\ prev = NoPrev

SingletonIdle == _instances = NoInstance /\ calls = <<>> /\ next_obj = 1
BitwardenIdle ==
    /\ settings = <<>> /\ file_settings = <<>>
    /\ bitwarden_settings = <<>> /\ bw_pc = "idle"

Init == WalletInit /\ SingletonIdle /\ BitwardenIdle

Next ==
    \/ (ReadIcon /\ UNCHANGED <<singletonVars, bitwardenVars>>)
    \/ (ReadIcon2x /\ UNCHANGED <<singletonVars, bitwardenVars>>)
    \/ (BuildPassJson /\ UNCHANGED <<singletonVars, bitwardenVars>>)
    \/ (GetImgReturn /\ UNCHANGED <<singletonVars, bitwardenVars>>)
    \/ (GetImgFallback /\ UNCHANGED <<singletonVars, bitwardenVars>>)
    \/ (GetImgRecursionError /\ UNCHANGED <<singletonVars, bitwardenVars>>)
    \/ (GetImgRaises /\ UNCHANGED <<singletonVars, bitwardenVars>>)
    \/ (AddThumbnail /\ UNCHANGED <<singletonVars, bitwardenVars>>)
    \/ (AddThumbnail2x /\ UNCHANGED <<singletonVars, bitwardenVars>>)
    \/ (ReadLogo2x /\ UNCHANGED <<singletonVars, bitwardenVars>>)
    \/ (ReadLogo /\ UNCHANGED <<singletonVars, bitwardenVars>>)
    \/ (AddPassJson /\ UNCHANGED <<singletonVars, bitwardenVars>>)
    \/ (ReadCredentials /\ UNCHANGED <<singletonVars, bitwardenVars>>)
    \/ (Sign /\ UNCHANGED <<singletonVars, bitwardenVars>>)
    \/ (SignRaises /\ UNCHANGED <<singletonVars, bitwardenVars>>)
    \/ (AssetReadRaises /\ UNCHANGED <<singletonVars, bitwardenVars>>)
    \/ (CredentialReadRaises /\ UNCHANGED <<singletonVars, bitwardenVars>>)
    \/ (Respond /\ UNCHANGED <<singletonVars, bitwardenVars>>)
    \/ (TwinRequest /\ UNCHANGED <<singletonVars, bitwardenVars>>)

Spec == Init /\ [][Next]_vars

InitSettings == WalletIdle /\ SingletonIdle /\ BitwardenIdle

NextSettings == SettingsCall /\ UNCHANGED <<walletVars, bitwardenVars>>

SpecSettings == InitSettings /\ [][NextSettings]_vars

InitBitwarden == WalletIdle /\ SingletonIdle /\ BitwardenInit

NextBitwarden ==
    \/ (BitwardenConfig /\ UNCHANGED <<walletVars, singletonVars>>)
    \/ (BitwardenConfigRaises /\ UNCHANGED <<walletVars, singletonVars>>)
    \/ (BitwardenDisabled /\ UNCHANGED <<walletVars, singletonVars>>)

SpecBitwarden == InitBitwarden /\ [][NextBitwarden]_vars

---------------------------------------------------------------------------
(* Properties of the pass builder, checked under Spec.                     *)

EntryIndexes == 1..Len(p.entries)
EntryNames == { p.entries[i][1] : i \in EntryIndexes }
DataOf(name) == { p.entries[i][2] : i \in { j \in EntryIndexes : p.entries[j][1] = name } }
Built == pc \in {"returned", "responded"}
HasAvatar == Truthy(discord_img(user_data))
Empty(v) == v \in {Absent, PyNone, ""}

\* C1: a get_img call issues at most 2 GET requests (the url, then the
\* fallback once), whatever the hosts answer.
C1_AtMostTwoGets == gets <= 2

\* C2: a built package of a profile without avatar url holds no thumbnail;
\* with an avatar url it holds thumbnail.png and thumbnail@2x.png with the
\* same bytes, whatever the fetches returned.
C2_ThumbnailsIdentical ==
    Built =>
      IF HasAvatar
        THEN /\ Cardinality({ i \in EntryIndexes :
                    p.entries[i][1] \in {"thumbnail.png", "thumbnail@2x.png"} }) = 2
             /\ DataOf("thumbnail.png") = DataOf("thumbnail@2x.png")
             /\ Cardinality(DataOf("thumbnail.png")) = 1
        ELSE {"thumbnail.png", "thumbnail@2x.png"} \cap EntryNames = {}

\* C3: the secondary field of the manifest is "Not Provisioned" when
\* infra_email is absent, None or "", and the email otherwise.
C3_NotProvisioned ==
    pass_json # NoPassJson =>
      pass_json.generic.secondaryFields[1].value =
        IF Empty(user_data.infra_email) THEN "Not Provisioned"
                                        ELSE user_data.infra_email

\* C4: logo.png and logo@2x.png hold the operator assets of the matching
\* scale when ops_email is present and non-empty, the regular assets of the
\* matching scale otherwise; a built package holds both.
C4_LogoVariant ==
    LET variant == IF Empty(user_data.ops_email) THEN "logo_reg" ELSE "logo_ops"
    IN  /\ DataOf("logo.png") \subseteq { "bytes(" \o variant \o ".png)" }
        /\ DataOf("logo@2x.png") \subseteq { "bytes(" \o variant \o "@2x.png)" }
        /\ Built => DataOf("logo.png") # {} /\ DataOf("logo@2x.png") # {}

C4_Witness ==
    /\ pc = "responded"
    /\ user_data.ops_email = "ada@ops.hackucf.org"
    /\ DataOf("logo.png") = { "bytes(logo_ops.png)" }

\* the twin request has been served with the fetch results of the first
TwinServed == pc = "responded" /\ prev # NoPrev /\ fetch_log = prev.fetch_log
NotPassJson(e) == e[1] # "pass.json"
BlankMessage(m) == [m EXCEPT !.barcodes[1].message = ""]
BlankSerial(m) == [m EXCEPT !.serialNumber = ""]

\* C5 as stated: two profiles differing only in id, same fetch results: the
\* barcode messages differ and everything else of manifest and entries is equal.
C5_OnlyMessageDiffers ==
    TwinServed =>
      /\ pass_json.barcodes[1].message # prev.pass_json.barcodes[1].message
      /\ BlankMessage(pass_json) = BlankMessage(prev.pass_json)
      /\ SelectSeq(p.entries, NotPassJson) = SelectSeq(prev.entries, NotPassJson)

\* C5 amended: the barcode messages differ unless one profile has no id and
\* the other's id is "Unknown_ID"; apart from the message and the
\* serialNumber the manifests are equal, and so are all entries but pass.json.
C5_MessageAndSerialDiffer ==
    TwinServed =>
      /\ (pass_json.barcodes[1].message = prev.pass_json.barcodes[1].message)
           <=> ({user_data.id, prev.user_data.id} = {Absent, "Unknown_ID"})
      /\ BlankSerial(BlankMessage(pass_json)) = BlankSerial(BlankMessage(prev.pass_json))
      /\ SelectSeq(p.entries, NotPassJson) = SelectSeq(prev.entries, NotPassJson)

C5_Witness ==
    /\ TwinServed
    /\ HasAvatar
    /\ Len(fetch_log) > 2
    /\ pass_json.serialNumber # prev.pass_json.serialNumber
    /\ pass_json.barcodes[1].message # prev.pass_json.barcodes[1].message

ExpectedNames ==
    {"icon.png", "icon@2x.png", "logo.png", "logo@2x.png", "pass.json"}
    \cup (IF HasAvatar THEN {"thumbnail.png", "thumbnail@2x.png"} ELSE {})

\* C6: sign() is entered only on a package that holds every entry, the key
\* and the certificate, nothing is added afterwards, and a response exists
\* only for a signed, complete package; a failed request has no response.
C6_AllOrNothing ==
    /\ sign_called => /\ EntryNames = ExpectedNames
                      /\ Len(p.entries) = Cardinality(ExpectedNames)
                      /\ p.key # PyNone /\ p.cert # PyNone
                      /\ pc \in {"returned", "responded", "failed"}
    /\ p.signed => sign_called
    /\ pc = "returned" => p.signed
    /\ response # NoResponse => /\ p.signed
                                /\ response.content = Bytes(p)
                                /\ response.content.signed
    /\ pc = "failed" => response = NoResponse

C6_Witness ==
    /\ pc = "responded"
    /\ response # NoResponse
    /\ HasAvatar
    /\ response.content.entries = p.entries

\* C7 as stated: the barcode altText is the Discord username when there is
\* one and a placeholder string otherwise, never null.
C7_AltTextNeverNull ==
    pass_json # NoPassJson =>
      /\ pass_json.barcodes[1].altText # PyNone
      /\ Discord(user_data).username # Absent =>
           pass_json.barcodes[1].altText = Discord(user_data).username

\* C7 amended: the barcode altText is the Discord username when the profile
\* has one, and None (null in pass.json) otherwise.
C7_AltTextOrNone ==
    pass_json # NoPassJson =>
      pass_json.barcodes[1].altText =
        IF user_data.has_discord /\ user_data.discord.username # Absent
          THEN user_data.discord.username
          ELSE PyNone

C7_Witness ==
    /\ pc = "responded"
    /\ user_data.has_discord
    /\ user_data.discord.username = Absent
    /\ pass_json.barcodes[1].altText = PyNone

\* C8: at every point the names added to the package are pairwise distinct,
\* and a built package holds exactly the five fixed names plus, only with an
\* avatar url, the two thumbnails.
C8_DistinctNames ==
    /\ \A i, j \in EntryIndexes : p.entries[i][1] = p.entries[j][1] => i = j
    /\ EntryNames \subseteq ExpectedNames
    /\ Built => EntryNames = ExpectedNames

C8_Witness ==
    /\ pc = "responded"
    /\ HasAvatar
    /\ Len(p.entries) = 7

---------------------------------------------------------------------------
(* Properties of settings.py.                                              *)

Returned == { i \in 1..Len(calls) : calls[i].result # Raised }

\* C9 (SpecSettings): every Settings(...) call that returns returns the one
\* object built by the first call that validated, with that call's
\* arguments; later arguments, valid or not, are ignored, the stored instance
\* is never replaced, and while no call has validated nothing is stored.
C9_SingleInstance ==
    IF Returned = {}
      THEN _instances = NoInstance
      ELSE LET first == CHOOSE i \in Returned : \A j \in Returned : i <= j
           IN  /\ _instances = calls[first].result
               /\ _instances.http_domain = Get(calls[first].domain, DefaultDomain)
               /\ Validates(calls[first].domain)
               /\ \A i \in 1..Len(calls) :
                    /\ i < first => calls[i].result = Raised
                    /\ i >= first => calls[i].result = _instances

C9_Witness ==
    /\ Len(calls) = 4
    /\ calls[1].result = Raised
    /\ calls[2].result # Raised
    /\ calls[3].domain = PyNone
    /\ calls[4].domain \notin {PyNone, calls[2].domain}
    /\ calls[3].result = calls[2].result
    /\ calls[4].result = calls[2].result

\* a fetched mapped key names this field of this section
Named(section, field) ==
    \E k \in DOMAIN bitwarden_mapping \cap DOMAIN bitwarden_settings :
        bitwarden_mapping[k] = <<section, field>>

\* C10 (SpecBitwarden): after BitwardenConfig every fetched mapped secret
\* whose section exists in the settings is stored at settings[section][field],
\* no section is created, and every other entry of the settings is as the
\* file gave it; fetched keys outside the mapping change nothing.
C10_OverlayFrame ==
    /\ bw_pc = "merged" =>
         /\ \A k \in DOMAIN bitwarden_mapping \cap DOMAIN bitwarden_settings :
              bitwarden_mapping[k][1] \in DOMAIN file_settings =>
                /\ bitwarden_mapping[k][1] \in DOMAIN settings
                /\ bitwarden_mapping[k][2] \in DOMAIN settings[bitwarden_mapping[k][1]]
                /\ settings[bitwarden_mapping[k][1]][bitwarden_mapping[k][2]]
                     = bitwarden_settings[k]
         /\ DOMAIN settings = DOMAIN file_settings
         /\ \A section \in DOMAIN file_settings :
              \A field \in DOMAIN settings[section] \cup DOMAIN file_settings[section] :
                ~Named(section, field) =>
                  /\ field \in DOMAIN settings[section]
                  /\ field \in DOMAIN file_settings[section]
                  /\ settings[section][field] = file_settings[section][field]
    /\ bw_pc # "merged" => settings = file_settings

C10_Witness ==
    /\ bw_pc = "merged"
    /\ "jwt_secret" \in DOMAIN bitwarden_settings
    /\ "discord_bot_token" \in DOMAIN bitwarden_settings
    /\ "discord" \in DOMAIN settings
    /\ "stripe" \in DOMAIN settings
    /\ settings["discord"].bot_token = "bws-2"
    /\ settings["stripe"] = file_settings["stripe"]

====
